---- MODULE Spec2Model ----
(***************************************************************************)
(* Model of backend/scripts/scholar_crawler.py: the retrying WDQS client,  *)
(* the offset/limit paginator, the per-occupation harvester with its CSV   *)
(* checkpoint, the driver loop of main, and consolidate_people.            *)
(*                                                                         *)
(* One process, strictly sequential.  The model cuts the run at every      *)
(* request sent to the remote service: an action is either one pass of the *)
(* retry wrapper's loop around _run_once, or the code that runs between    *)
(* two requests (generator body, csv writes, except handler, main's loop). *)
(*                                                                         *)
(* The remote result set of the occupation being harvested is the records  *)
(* 0 .. nrec-1 (drawn when its harvest starts); a query (offset, limit)    *)
(* answers with records offset .. offset+limit-1 of it.                    *)
(* A partition's CSV file is a header plus a sequence of data rows, kept   *)
(* here as the sequence of record intervals <<lo, hi>> (records lo..hi-1)  *)
(* in the order they were written.                                         *)
(***************************************************************************)
EXTENDS Integers, Sequences, FiniteSets, TLC

\* ------------------------------------------------------------------ bounds
MaxRuns == 2          \* process invocations over the same data/raw directory
NumParts == 2         \* occupations returned by the enumeration query
MaxRecords == 350     \* largest remote result set of one occupation
MaxFaults == 3        \* queries that fail for good (exception out of _run_once), over all invocations
MaxCfgRetries == 5    \* largest --max-retries
MaxClamp == 8         \* largest maximum delay looked for
NumFiles == 2         \* people_*.csv files in data/raw when consolidate_people runs
NumBatches == 3       \* phil_book_crawler: batches of person ids
MaxBookRetries == 2   \* phil_book_crawler: largest --retries
MaxThreads == 2       \* phil_book_crawler: largest --threads

\* ------------------------------------------------------- program constants
DefaultPageSize == 2000      \* Config.page_size
PolitenessSleep == 1         \* Config.sleep
RunOnceMaxRetries == 3       \* @retry(..., max_retries=3)
DefaultMaxRetries == 4       \* Config.max_retries
InitialDelay == 1            \* tries, delay = max_retries, 1.0
Backoff == 2                 \* retry(..., backoff=2.0)
DefaultRetryAfter == 30      \* e.headers.get("Retry-After", "30")
MaxConsecutiveFail == 3      \* while consecutive_fail < 3
PageFloor == 500             \* max(500, page_size // 2)
Cooldown == 5                \* time.sleep(5)
UpperYear == 1901            \* birth_dt.dt.year.le(1901)
LowerYear == 1800            \* death_dt.dt.year.ge(1800)
DEFAULT_MAX_RETRIES == 3     \* phil_book_crawler.DEFAULT_MAX_RETRIES
DEFAULT_THREADS == 4         \* phil_book_crawler.DEFAULT_THREADS

CapacityCodes == {502, 503, 504, 429}

\* The exception classes the @retry decorator of _run_once is given.
RetryExceptions ==
    {"requests.ConnectionError", "requests.HTTPError", "UrlHTTPError",
     "JSONDecodeError", "RemoteDisconnected"}

\* ------------------------------------------------------------ input spaces
Parts == 1 .. NumParts
Batches == 1 .. NumBatches                            \* batches of chunk_list(ids, args.batch)
BatchRows == {0, 2}                                  \* |result| of the query of a batch
PageSizes == {300, DefaultPageSize}                  \* --page-size
DataSizes == {0, MaxRecords}                         \* |result set| of an occupation
HttpCodes == {503, 403}                              \* statuses of a UrlHTTPError
HintValues == {0, 5, 120}                            \* Retry-After: seconds
BirthYears == {1700, 1801, 1810, 1901, 1902, 1950}   \* years of a birth date
DeathYears == {1799, 1800, 1870, 1900, 1901, 1999}   \* years of a death date
\* What one request can come back with: the bindings, an HTTP error raised by
\* urllib as UrlHTTPError, or another exception ("Other" stands for every class
\* outside RetryExceptions: URLError, SPARQLWrapper's own exceptions, KeyError).
Responses ==
    [kind : {"ok"}, code : {200}, hasHint : {FALSE}, hint : {0}, type : {"none"}]
    \cup [kind : {"http"}, code : HttpCodes, hasHint : {FALSE}, hint : {0},
          type : {"UrlHTTPError"}]
    \cup [kind : {"exc"}, code : {0}, hasHint : {FALSE}, hint : {0},
          type : {"JSONDecodeError", "RemoteDisconnected", "Other"}]

\* retry_after: the Retry-After header of the response the exception carries, -1 if none.
NoExc == [type |-> "none", code |-> 0, retry_after |-> -1]
NoFile == [exists |-> FALSE, rows |-> <<>>]
NoFuture == [state |-> "none", rows |-> 0]

Max(a, b) == IF a >= b THEN a ELSE b
Min(a, b) == IF a <= b THEN a ELSE b

VARIABLES
    run,                 \* number of the current process invocation
    faults,              \* remote: queries failed for good so far
    nrec,                \* remote: size of the result set of the occupation being harvested
    file,                \* data/raw/people_<occ>.csv, per occupation
    configured,          \* --page-size of this invocation
    cfg_page_size,       \* client.cfg.page_size (shared, mutable)
    pc,                  \* where the process is
    caller,              \* who called _run_once: "download_occupations" | "paged"
    idx,                 \* main's loop position in occ_df
    tries, delay,        \* retry wrapper locals
    batch,               \* number of bindings _run_once returned
    exc,                 \* the wrapper's `exc`: what fn last raised (in flight when pc = "raised")
    offset,              \* paged's local
    consecutive_fail,    \* download_people_per_occ local
    original_page_size,  \* download_people_per_occ local
    failed,              \* main's list of failed occupations
    ret,                 \* what download_people_per_occ returned, per occupation, this run
    \* ---- observers (history of the run, not program state)
    attempts,            \* requests sent for the current query
    backoffs,            \* the delays the wrapper slept for the current query, in order
    slept,               \* sleeps taken since the last request was sent
    streak,              \* capacity failures of the occupation since its last successful page
    prevOffset,          \* offset of the previous page query of this occupation, -1 if none
    sumLimits,           \* sum of the limits of the non-empty pages fetched for this occupation
    failedOffset,        \* offset of the page whose failure restarted pagination, -1 if none
    starts,              \* client.paged generators started for the occupation being harvested
    earlier,             \* occupations whose harvest returned True in an earlier invocation
    exit_status,         \* the status the process ended with, -1 while it runs
    \* ---- configuration that _run_once could read, and consolidate_people's data
    cfg_max_retries,     \* Config.max_retries (--max-retries)
    frames,              \* consolidate_people: the files it read
    rawdir,              \* consolidate_people: data/raw/people_*.csv, as rows of persons
    scholars,            \* consolidate_people: data/processed/scholars.csv
    \* ---- phil_book_crawler.py
    retries,             \* args.retries
    threads,             \* args.threads
    remote,              \* remote: rows the endpoint holds for the query of each batch
    claims_i,            \* main's position in the sequential claims loop
    future,              \* future_to_batch: state and result of the future of each batch
    claims,              \* table claims of the SQLite cache
    works,               \* table works of the SQLite cache
    \* ---- observers of phil_book_crawler.py
    requests,            \* requests sent so far by the sparql_query call running for the batch
    truth,               \* how that sparql_query call ended: "none" | "ok" | "failed"
    logged,              \* rows main logged for the batch, this phase, -1 if none yet
    inserts,             \* executemany calls on works, per batch
    first_seen           \* the batch whose future as_completed handed to main first, 0 if none

vars == <<run, faults, nrec, file, configured, cfg_page_size, pc, caller, idx, tries, delay,
          batch, exc, offset, consecutive_fail, original_page_size, failed, ret,
          attempts, backoffs, slept, streak, prevOffset, sumLimits, failedOffset,
          starts, earlier, exit_status, cfg_max_retries, frames, rawdir, scholars,
          retries, threads, remote, claims_i, future, claims, works,
          requests, truth, logged, inserts, first_seen>>

obsVars == <<streak, prevOffset, sumLimits, failedOffset>>
harvestLocals == <<offset, consecutive_fail, original_page_size>>
\* What the crawl never writes: the unused option, and the person-level view
\* of the files that only the consolidation steps use.
bookVars == <<retries, threads, remote, claims_i, future, claims, works,
              requests, truth, logged, inserts, first_seen>>
otherVars == <<cfg_max_retries, rawdir, scholars, bookVars>>
\* The state of scholar_crawler.py but for the program point.
crawlVars == <<run, faults, nrec, file, configured, cfg_page_size, caller, idx, tries, delay,
               batch, exc, offset, consecutive_fail, original_page_size, failed, ret,
               attempts, backoffs, slept, streak, prevOffset, sumLimits, failedOffset,
               starts, earlier, exit_status, cfg_max_retries, frames, rawdir, scholars>>

\* ------------------------------------------------------------ pure helpers

\* The remote service: how many bindings a LIMIT/OFFSET window holds.
FetchPage(n, off, lim) == Max(0, Min(lim, n - off))

\* Number of data rows of a file whose rows are the intervals of `rows`.
RECURSIVE DataRows(_)
DataRows(rows) ==
    IF rows = <<>> THEN 0
    ELSE (Head(rows)[2] - Head(rows)[1]) + DataRows(Tail(rows))

\* Lines of the CSV file: the header, then one line per data row.
NumLines(f) == IF f.exists THEN 1 + DataRows(f.rows) ELSE 0

CsvHasData_ExistsOnly(f) == f.exists
\* _csv_has_data: the path exists and two next(fp) succeed (header + one more line).
CsvHasData(f) == f.exists /\ NumLines(f) >= 2

CheckpointHit_Never(f) == FALSE
\* if _csv_has_data(path): ... return
CheckpointHit(f) == CsvHasData(f)

\* The wait _run_once sleeps on a capacity status: int(Retry-After), default "30".
RetryAfterWait(resp) == IF resp.hasHint THEN resp.hint ELSE DefaultRetryAfter

\* The body of _run_once for one response of the endpoint: what it returns or
\* raises, and the sleep it takes before raising.
RunOnceBody(resp) ==
    LET header == IF resp.hasHint THEN resp.hint ELSE -1 IN
    IF resp.kind = "ok"
    THEN [raised |-> FALSE, exc |-> NoExc, slept |-> <<>>]
    ELSE IF resp.kind = "http"
    THEN IF resp.code \in CapacityCodes
         THEN [raised |-> TRUE,
               exc |-> [type |-> "requests.HTTPError", code |-> resp.code,
                        retry_after |-> header],
               slept |-> << <<"retry_after", RetryAfterWait(resp)>> >>]
         ELSE [raised |-> TRUE,
               exc |-> [type |-> "UrlHTTPError", code |-> resp.code,
                        retry_after |-> header],
               slept |-> <<>>]
    ELSE [raised |-> TRUE,
          exc |-> [type |-> resp.type, code |-> 0, retry_after |-> -1],
          slept |-> <<>>]

\* `except exceptions as exc` of the retry wrapper.
WrapperCatches(e) == e.type \in RetryExceptions

HarvesterHandles_AnyHttpError(e) == e.type \in {"requests.HTTPError", "UrlHTTPError"}
\* `except requests.HTTPError` of download_people_per_occ, minus its re-raise of
\* a response whose status is not a capacity status.
HarvesterHandles(e) == e.type = "requests.HTTPError" /\ e.code \in CapacityCodes

EmptyBatch_Never(b) == FALSE
\* paged: `if not batch: break`
EmptyBatch(b) == b = 0

PagedSleeps_AfterEveryPage(b) == << <<"politeness", PolitenessSleep>> >>
\* paged: what it sleeps once it has a batch: time.sleep(self.cfg.sleep) after
\* the rows of a non-empty batch, nothing after the empty one (break).
PagedSleeps(b) == IF EmptyBatch(b) THEN <<>> ELSE << <<"politeness", PolitenessSleep>> >>

WhileCondition_OffByOne(cf) == cf <= MaxConsecutiveFail
\* while consecutive_fail < 3
WhileCondition(cf) == cf < MaxConsecutiveFail

ShrinkPageSize_NoFloor(ps) == ps \div 2
\* client.cfg.page_size = max(500, client.cfg.page_size // 2)
ShrinkPageSize(ps) == Max(PageFloor, ps \div 2)

RestoredPageSize_Forgotten(orig, cur) == cur
\* client.cfg.page_size = original_page_size
RestoredPageSize(orig, cur) == orig

\* consolidate_people: the people_*.csv of the directory that _csv_has_data accepts.
GlobFrames(dir, names) == {p \in names : CsvHasData(dir[p])}

ClosedFile_Discarded(f) == NoFile
\* The with-block of download_people_per_occ is left: the file is closed and
\* holds what was written to it.
ClosedFile(f) == f

\* The status of the process: main returns and the interpreter exits with 0;
\* KeyboardInterrupt is caught under __main__, which calls sys.exit(130); any
\* other exception leaves the interpreter with its traceback and status 1.
ExitStatus_AlwaysZero(outcome) == 0

ExitStatus(outcome) ==
    CASE outcome = "none" -> 0
      [] outcome = "KeyboardInterrupt" -> 130
      [] OTHER -> 1

\* The `for row in client.paged(...)` loop cut short by an exception raised
\* between two rows of a page of b rows: the rows written by then. A row is
\* one writer.writerow call, which hands the file one whole line.
RowsBeforeInterrupt(b) == {k \in {0, 1, b} : k <= b}

\* The file the with-block leaves when the loop is cut short after k rows of
\* the page at offset off: the rows written so far are flushed by the close.
InterruptedFile_BufferLost(f, off, k) == [f EXCEPT !.rows = <<>>]

InterruptedFile(f, off, k) ==
    IF k = 0 THEN ClosedFile(f)
    ELSE ClosedFile([f EXCEPT !.rows = Append(@, <<off, off + k>>)])

\* main: `if not ok: failed.append(...)`; None and False are both falsy.
NotOk(r) == r \in {"None", "False"}
MainRecord(lst, p, r) == IF NotOk(r) THEN Append(lst, p) ELSE lst

\* ------------------------------------------------------- consolidate_people

\* Here a people_*.csv file is seen at the level of its cells: rows is the
\* sequence of its data rows, each with the columns the function looks at.
Files == 1 .. NumFiles
EmptyDir == [f \in Files |-> NoFile]
HeaderOnly == [exists |-> TRUE, rows |-> <<>>]
NoScholars == [written |-> FALSE, rows |-> <<>>]

\* A cell of the birth or death column as read_csv(dtype=str) gives it: no
\* text, a text that is no date (Wikidata's unknown-value URI), or an ISO
\* date; jan1 tells whether the date is the first of January of its year.
NoDateCells ==
    {[kind |-> "empty", year |-> 0, jan1 |-> FALSE],
     [kind |-> "junk", year |-> 0, jan1 |-> FALSE]}
BirthCells == NoDateCells \cup [kind : {"date"}, year : BirthYears, jan1 : BOOLEAN]
DeathCells == NoDateCells \cup [kind : {"date"}, year : DeathYears, jan1 : BOOLEAN]
PersonRows == [person_id : {"Q1"}, birth : BirthCells, death : DeathCells]

\* pd.to_datetime(..., errors="coerce", utc=True): a date is parsed, anything
\* else becomes NaT.
NaT == [nat |-> TRUE, year |-> 0, jan1 |-> FALSE]
ToDatetime(cell) ==
    IF cell.kind = "date"
    THEN [nat |-> FALSE, year |-> cell.year, jan1 |-> cell.jan1]
    ELSE NaT
\* Series.isna()
IsNa(ts) == ts.nat
\* Series.dt.year: NaN for NaT.
DtYear(ts) == IF ts.nat THEN [nan |-> TRUE, val |-> 0] ELSE [nan |-> FALSE, val |-> ts.year]
\* Series.le / Series.ge: a comparison with NaN is False.
Le(v, n) == ~v.nan /\ v.val <= n
Ge(v, n) == ~v.nan /\ v.val >= n

MaskRow_AndBindsLast(row) ==
    /\ Le(DtYear(ToDatetime(row.birth)), UpperYear)
    /\ \/ Ge(DtYear(ToDatetime(row.death)), LowerYear)
       \/ IsNa(ToDatetime(row.death))
\* mask = birth_dt.dt.year.le(1901) & death_dt.dt.year.ge(1800) | death_dt.isna()
\* (& binds tighter than |)
MaskRow(row) ==
    \/ /\ Le(DtYear(ToDatetime(row.birth)), UpperYear)
       /\ Ge(DtYear(ToDatetime(row.death)), LowerYear)
    \/ IsNa(ToDatetime(row.death))

\* _csv_has_data on a file seen as rows: the header line and one more line.
CsvHasRows(f) == f.exists /\ 1 + Len(f.rows) >= 2

\* frames = [read_csv(p) for p in raw_dir.glob("people_*.csv") if _csv_has_data(p)]
ReadFrames(dir) == {f \in Files : CsvHasRows(dir[f])}

\* pd.concat(frames, ignore_index=True): the rows of the frames one after the
\* other (glob's order is the file system's; taken here by file number).
RECURSIVE Concat(_, _, _)
Concat(dir, read, f) ==
    IF f > NumFiles THEN <<>>
    ELSE (IF f \in read THEN dir[f].rows ELSE <<>>) \o Concat(dir, read, f + 1)

RECURSIVE DropDuplicates(_)
DropDuplicates(rows) ==
    IF rows = <<>> THEN <<>>
    ELSE LET rest == DropDuplicates(Tail(rows)) IN
         IF \E i \in 1 .. Len(rest) : rest[i] = Head(rows)
         THEN rest ELSE <<Head(rows)>> \o rest
Consolidated_Deduplicated(dir, read) == DropDuplicates(SelectSeq(Concat(dir, read, 1), MaskRow))
\* df.loc[mask]
Consolidated(dir, read) == SelectSeq(Concat(dir, read, 1), MaskRow)

\* ------------------------------------------------------------------- Init
\* phil_book_crawler.py is not running: its options at their defaults.
BookDefaults ==
    /\ retries = DEFAULT_MAX_RETRIES
    /\ threads = DEFAULT_THREADS
    /\ remote = [b \in Batches |-> 0]

\* What every specification below starts from, but for the program point,
\* the --max-retries option and the person-level directory: main is started
\* over the data/raw directory dir, left by invocations that completed the
\* occupations in `completed`.
InitStateOver(dir, completed) ==
    /\ run = 1
    /\ nrec = 0
    /\ faults = 0
    /\ file = dir
    /\ configured \in PageSizes
    /\ cfg_page_size = configured
    /\ caller = "download_occupations"
    /\ idx = 0
    /\ tries = RunOnceMaxRetries
    /\ delay = InitialDelay
    /\ batch = 0
    /\ exc = NoExc
    /\ offset = 0
    /\ consecutive_fail = 0
    /\ original_page_size = configured
    /\ failed = <<>>
    /\ ret = [p \in Parts |-> "unset"]
    /\ attempts = 0
    /\ backoffs = <<>>
    /\ slept = <<>>
    /\ streak = 0
    /\ prevOffset = -1
    /\ sumLimits = 0
    /\ failedOffset = -1
    /\ starts = 0
    /\ earlier = completed
    /\ exit_status = -1
    /\ frames = {}
    /\ scholars = NoScholars
    /\ claims_i = 1
    /\ future = [b \in Batches |-> NoFuture]
    /\ claims = {}
    /\ works = {}
    /\ requests = [b \in Batches |-> 0]
    /\ truth = [b \in Batches |-> "none"]
    /\ logged = [b \in Batches |-> -1]
    /\ inserts = [b \in Batches |-> 0]
    /\ first_seen = 0

\* The first invocation: data/raw holds no file.
InitState == InitStateOver([p \in Parts |-> NoFile], {})

\* main() with the default --max-retries, up to the query of download_occupations.
Init ==
    /\ InitState
    /\ BookDefaults
    /\ pc = "run_once"
    /\ cfg_max_retries = DefaultMaxRetries
    /\ rawdir = EmptyDir

\* A call of the wrapped _run_once: tries, delay = max_retries, 1.0
EnterRunOnce(c) ==
    /\ pc' = "run_once"
    /\ caller' = c
    /\ tries' = RunOnceMaxRetries
    /\ delay' = InitialDelay
    /\ attempts' = 0
    /\ backoffs' = <<>>
    /\ batch' = 0
    /\ exc' = NoExc

\* download_people_per_occ is left: its locals, the generator's and the
\* wrapper's are gone (kept at their initial values here), and the remote
\* result set of the occupation is no longer looked at.
LeaveHarvest ==
    /\ offset' = 0
    /\ consecutive_fail' = 0
    /\ original_page_size' = original_page_size
    /\ tries' = RunOnceMaxRetries
    /\ delay' = InitialDelay
    /\ batch' = 0
    /\ attempts' = 0
    /\ backoffs' = <<>>
    /\ nrec' = 0
    /\ prevOffset' = -1
    /\ sumLimits' = 0
    /\ failedOffset' = -1
    /\ starts' = 0

\* ------------------------------------------------- the retry wrapper's loop
\* Each of the three actions is given the set of answers the endpoint may send.

\* fn(*args) returns: the request succeeded.
RunOnceReturnOn(answers) ==
    /\ UNCHANGED otherVars
    /\ UNCHANGED <<earlier, frames, exit_status, starts>>
    /\ pc = "run_once"
    /\ \E resp \in answers :
          /\ ~RunOnceBody(resp).raised
          /\ batch' = IF caller = "paged"
                      THEN FetchPage(nrec, offset, cfg_page_size)
                      ELSE NumParts
    /\ pc' = "returned"
    /\ attempts' = attempts + 1
    /\ slept' = <<>>
    /\ exc' = NoExc
    /\ UNCHANGED <<run, faults, nrec, file, configured, cfg_page_size, caller, idx, tries,
                   delay, failed, ret, backoffs>>
    /\ UNCHANGED harvestLocals
    /\ UNCHANGED obsVars

\* fn raised a listed exception and tries are left: sleep(delay), delay *= backoff.
RunOnceRetryOn(answers) ==
    /\ UNCHANGED otherVars
    /\ UNCHANGED <<earlier, frames, exit_status, starts>>
    /\ pc = "run_once"
    /\ \E resp \in answers :
          LET r == RunOnceBody(resp) IN
          /\ r.raised
          /\ WrapperCatches(r.exc)
          /\ tries - 1 > 0
          /\ exc' = r.exc
          /\ slept' = r.slept \o << <<"backoff", delay>> >>
    /\ tries' = tries - 1
    /\ delay' = delay * Backoff
    /\ attempts' = attempts + 1
    /\ backoffs' = Append(backoffs, delay)
    /\ UNCHANGED <<run, faults, nrec, file, configured, cfg_page_size, pc, caller, idx,
                   batch, failed, ret>>
    /\ UNCHANGED harvestLocals
    /\ UNCHANGED obsVars

\* fn raised and the wrapper lets it out: an exception it does not list, or a
\* listed one with no tries left (`raise`).
RunOnceRaiseOn(answers) ==
    /\ UNCHANGED otherVars
    /\ UNCHANGED <<earlier, frames, exit_status, starts>>
    /\ pc = "run_once"
    /\ \E resp \in answers :
          LET r == RunOnceBody(resp) IN
          /\ r.raised
          /\ \/ ~WrapperCatches(r.exc) /\ tries' = tries
             \/ WrapperCatches(r.exc) /\ tries - 1 <= 0 /\ tries' = tries - 1
          /\ exc' = r.exc
          /\ slept' = r.slept
    /\ faults < MaxFaults
    /\ faults' = faults + 1
    /\ pc' = "raised"
    /\ attempts' = attempts + 1
    /\ UNCHANGED <<run, nrec, file, configured, cfg_page_size, caller, idx, delay, batch,
                   failed, ret, backoffs>>
    /\ UNCHANGED harvestLocals
    /\ UNCHANGED obsVars

\* The wrapper's three ways on, with the endpoint answering from Responses.
RunOnceReturn == RunOnceReturnOn(Responses)
RunOnceRetry == RunOnceRetryOn(Responses)
RunOnceRaise == RunOnceRaiseOn(Responses)

\* ------------------------------------------------------------------- main

\* download_occupations got its rows: main enters the loop over occ_df.
DownloadOccupations ==
    /\ UNCHANGED otherVars
    /\ UNCHANGED <<earlier, frames, exit_status, starts>>
    /\ pc = "returned"
    /\ caller = "download_occupations"
    /\ pc' = "for_occ"
    /\ idx' = 1
    /\ failed' = <<>>
    /\ UNCHANGED <<run, faults, nrec, file, configured, cfg_page_size, caller, tries, delay, batch,
                   exc, ret, attempts, backoffs, slept>>
    /\ UNCHANGED harvestLocals
    /\ UNCHANGED obsVars

\* An exception nobody catches: out of download_occupations, or out of
\* download_people_per_occ (whose with-block closes the file), through main:
\* the process dies with the exception, every frame's locals with it.
Uncaught ==
    /\ UNCHANGED otherVars
    /\ UNCHANGED <<earlier, frames>>
    /\ exit_status' = ExitStatus(exc.type)
    /\ pc = "raised"
    /\ \/ caller = "download_occupations"
       \/ caller = "paged" /\ ~HarvesterHandles(exc)
    /\ pc' = "crashed"
    /\ LeaveHarvest
    /\ file' = IF caller = "paged" THEN [file EXCEPT ![idx] = ClosedFile(@)] ELSE file
    /\ streak' = 0
    /\ UNCHANGED <<run, faults, configured, cfg_page_size, caller, idx, exc, failed,
                   ret, slept>>

\* -------------------------------------------------- download_people_per_occ

\* Checkpoint hit: `return` (None); main then runs `if not ok`.
HarvestSkip ==
    /\ UNCHANGED otherVars
    /\ UNCHANGED <<earlier, frames, exit_status, starts>>
    /\ pc = "for_occ"
    /\ idx <= NumParts
    /\ CheckpointHit(file[idx])
    /\ ret' = [ret EXCEPT ![idx] = "None"]
    /\ failed' = MainRecord(failed, idx, "None")
    /\ idx' = idx + 1
    /\ streak' = 0
    /\ UNCHANGED <<run, faults, nrec, file, configured, cfg_page_size, pc, caller, tries,
                   delay, batch, exc, attempts, backoffs, slept, prevOffset, sumLimits,
                   failedOffset>>
    /\ UNCHANGED harvestLocals

\* No checkpoint: set the locals, open the file with "w", write the header,
\* enter the while loop and start the generator (offset = 0) up to its first query.
HarvestStart ==
    /\ UNCHANGED otherVars
    /\ UNCHANGED <<earlier, frames, exit_status>>
    /\ pc = "for_occ"
    /\ idx <= NumParts
    /\ ~CheckpointHit(file[idx])
    /\ consecutive_fail' = 0
    /\ starts' = 1
    /\ original_page_size' = cfg_page_size
    /\ file' = [file EXCEPT ![idx] = [exists |-> TRUE, rows |-> <<>>]]
    /\ WhileCondition(0)
    /\ offset' = 0
    /\ EnterRunOnce("paged")
    /\ streak' = 0
    /\ prevOffset' = -1
    /\ sumLimits' = 0
    /\ failedOffset' = -1
    /\ nrec' \in DataSizes
    /\ UNCHANGED <<run, faults, configured, cfg_page_size, idx, failed, ret, slept>>

\* paged got a non-empty batch: yield its rows (each written to the file),
\* offset += page_size, sleep(cfg.sleep), next query.
PagedYield ==
    /\ UNCHANGED otherVars
    /\ UNCHANGED <<earlier, frames, exit_status, starts>>
    /\ pc = "returned"
    /\ caller = "paged"
    /\ ~EmptyBatch(batch)
    /\ file' = [file EXCEPT ![idx].rows = Append(@, <<offset, offset + batch>>)]
    /\ offset' = offset + cfg_page_size
    /\ slept' = PagedSleeps(batch)
    /\ EnterRunOnce("paged")
    /\ streak' = 0
    /\ prevOffset' = offset
    /\ sumLimits' = sumLimits + cfg_page_size
    /\ failedOffset' = -1
    /\ UNCHANGED <<run, faults, nrec, configured, cfg_page_size, idx, failed, ret,
                   consecutive_fail, original_page_size>>

\* paged got an empty batch: the generator ends, the page size is restored,
\* `return True`; main then runs `if not ok`.
HarvestCompleted ==
    /\ UNCHANGED otherVars
    /\ UNCHANGED <<earlier, frames, exit_status>>
    /\ pc = "returned"
    /\ caller = "paged"
    /\ EmptyBatch(batch)
    /\ slept' = PagedSleeps(batch)
    /\ cfg_page_size' = RestoredPageSize(original_page_size, cfg_page_size)
    /\ ret' = [ret EXCEPT ![idx] = "True"]
    /\ failed' = MainRecord(failed, idx, "True")
    /\ idx' = idx + 1
    /\ pc' = "for_occ"
    /\ LeaveHarvest
    /\ file' = [file EXCEPT ![idx] = ClosedFile(@)]
    /\ streak' = 0
    /\ UNCHANGED <<run, faults, configured, caller, exc>>

\* except requests.HTTPError with a capacity status: count it, shrink the page
\* size, sleep(5), continue.
HarvestExcept ==
    /\ UNCHANGED otherVars
    /\ UNCHANGED <<earlier, frames, exit_status, starts>>
    /\ pc = "raised"
    /\ caller = "paged"
    /\ HarvesterHandles(exc)
    /\ consecutive_fail' = consecutive_fail + 1
    /\ cfg_page_size' = ShrinkPageSize(cfg_page_size)
    /\ slept' = << <<"cooldown", Cooldown>> >>
    /\ pc' = "while"
    /\ exc' = NoExc
    /\ streak' = streak + 1
    /\ failedOffset' = offset
    /\ UNCHANGED <<run, faults, nrec, file, configured, caller, idx, tries, delay, batch, failed,
                   ret, attempts, backoffs, offset, original_page_size, prevOffset,
                   sumLimits>>

\* The loop condition holds after a failure: a new client.paged(query), whose
\* offset starts at 0, up to its first query.
HarvestRestart ==
    /\ UNCHANGED otherVars
    /\ UNCHANGED <<earlier, frames, exit_status>>
    /\ pc = "while"
    /\ WhileCondition(consecutive_fail)
    /\ offset' = 0
    /\ starts' = starts + 1
    /\ EnterRunOnce("paged")
    /\ prevOffset' = offset
    /\ UNCHANGED <<run, faults, nrec, file, configured, cfg_page_size, idx, failed, ret, slept,
                   consecutive_fail, original_page_size, streak, sumLimits, failedOffset>>

\* The loop condition fails: leave the with-block, restore the page size,
\* `return False`; main then runs `if not ok`.
HarvestAbandon ==
    /\ UNCHANGED otherVars
    /\ UNCHANGED <<earlier, frames, exit_status>>
    /\ pc = "while"
    /\ ~WhileCondition(consecutive_fail)
    /\ cfg_page_size' = RestoredPageSize(original_page_size, cfg_page_size)
    /\ ret' = [ret EXCEPT ![idx] = "False"]
    /\ failed' = MainRecord(failed, idx, "False")
    /\ idx' = idx + 1
    /\ pc' = "for_occ"
    /\ LeaveHarvest
    /\ file' = [file EXCEPT ![idx] = ClosedFile(@)]
    /\ UNCHANGED streak
    /\ UNCHANGED <<run, faults, configured, caller, exc, slept>>

\* The loop over occ_df is exhausted: the failure report is `failed`;
\* consolidate_people reads the files that have data; main returns.
MainFinish ==
    /\ pc = "for_occ"
    /\ idx > NumParts
    /\ pc' = "done"
    /\ frames' = GlobFrames(file, Parts)
    /\ exit_status' = ExitStatus("none")
    /\ UNCHANGED <<earlier, starts>>
    /\ UNCHANGED otherVars
    /\ UNCHANGED <<run, faults, nrec, file, configured, cfg_page_size, caller, idx, tries, delay,
                   batch, exc, failed, ret, attempts, backoffs, slept>>
    /\ UNCHANGED harvestLocals
    /\ UNCHANGED obsVars

\* The script is started again over the same data/raw directory.
NewRun ==
    /\ pc \in {"done", "crashed"}
    /\ run < MaxRuns
    /\ run' = run + 1
    /\ cfg_page_size' = configured
    /\ original_page_size' = configured
    /\ EnterRunOnce("download_occupations")
    /\ idx' = 0
    /\ offset' = 0
    /\ consecutive_fail' = 0
    /\ failed' = <<>>
    /\ ret' = [p \in Parts |-> "unset"]
    /\ slept' = <<>>
    /\ streak' = 0
    /\ prevOffset' = -1
    /\ sumLimits' = 0
    /\ failedOffset' = -1
    /\ starts' = 0
    /\ nrec' = 0
    /\ earlier' = earlier \cup {p \in Parts : ret[p] = "True"}
    /\ frames' = {}
    /\ exit_status' = -1
    /\ UNCHANGED otherVars
    /\ UNCHANGED <<faults, configured, file>>

Next ==
    \/ RunOnceReturn
    \/ RunOnceRetry
    \/ RunOnceRaise
    \/ DownloadOccupations
    \/ Uncaught
    \/ HarvestSkip
    \/ HarvestStart
    \/ PagedYield
    \/ HarvestCompleted
    \/ HarvestExcept
    \/ HarvestRestart
    \/ HarvestAbandon
    \/ MainFinish
    \/ NewRun

Spec == Init /\ [][Next]_vars

\* ------------------------------------------------ the run under Ctrl-C
\* KeyboardInterrupt is raised in the main thread wherever it is. It is a
\* BaseException: neither the retry wrapper nor the harvester's except clause
\* catches it. The with-block of download_people_per_occ closes the file on
\* the way out, and __main__ catches it and calls sys.exit(130).
Interrupt ==
    /\ pc \in {"run_once", "returned", "raised", "while", "for_occ"}
    /\ pc' = "interrupted"
    /\ exit_status' = ExitStatus("KeyboardInterrupt")
    /\ \E k \in RowsBeforeInterrupt(IF pc = "returned" /\ caller = "paged" THEN batch ELSE 0) :
          file' = IF caller = "paged" /\ pc # "for_occ"
                  THEN [file EXCEPT ![idx] = InterruptedFile(@, offset, k)]
                  ELSE file
    /\ LeaveHarvest
    /\ streak' = 0
    /\ UNCHANGED otherVars
    /\ UNCHANGED <<earlier, frames>>
    /\ UNCHANGED <<run, faults, configured, cfg_page_size, caller, idx, exc, failed,
                   ret, slept>>

\* ------------------------------------------------ one invocation, to its end
\* The steps of one process. It is a single thread that runs whenever it has
\* a step to take: every request ends (with an answer, an error or the
\* client's timeout) and every sleep ends, so a step that can be taken is.
MainSteps ==
    \/ RunOnceReturn
    \/ RunOnceRetry
    \/ RunOnceRaise
    \/ DownloadOccupations
    \/ Uncaught
    \/ HarvestSkip
    \/ HarvestStart
    \/ PagedYield
    \/ HarvestCompleted
    \/ HarvestExcept
    \/ HarvestRestart
    \/ HarvestAbandon
    \/ MainFinish

\* An invocation over a data/raw directory in which earlier invocations have
\* completed some of the occupations, each file holding the result set whole.
CompletedFile == [exists |-> TRUE, rows |-> << <<0, MaxRecords>> >>]

InitOver ==
    /\ \E dir \in [Parts -> {NoFile, CompletedFile}] :
          InitStateOver(dir, {p \in Parts : dir[p] = CompletedFile})
    /\ BookDefaults
    /\ pc = "run_once"
    /\ cfg_max_retries = DefaultMaxRetries
    /\ rawdir = EmptyDir

SpecMain == InitOver /\ [][MainSteps]_vars /\ WF_vars(MainSteps)

\* One invocation that Ctrl-C may end at any of its steps.
NextInterrupt == MainSteps \/ Interrupt

SpecInterrupt == InitOver /\ [][NextInterrupt]_vars

\* ------------------------------------------- the client on its own: _run_once
\* One caller sends query after query through client._run_once; the endpoint
\* may answer a capacity status with a Retry-After header, and --max-retries
\* is any value from 1 to MaxCfgRetries.
ClientResponses ==
    Responses
    \cup [kind : {"http"}, code : {503, 429}, hasHint : {TRUE}, hint : HintValues,
          type : {"UrlHTTPError"}]

InitClient ==
    /\ InitState
    /\ BookDefaults
    /\ pc = "run_once"
    /\ cfg_max_retries \in 1 .. MaxCfgRetries
    /\ rawdir = EmptyDir

ClientReturn == RunOnceReturnOn(ClientResponses)
ClientRetry == RunOnceRetryOn(ClientResponses)
ClientRaise == RunOnceRaiseOn(ClientResponses)

\* The caller has its answer or its exception and calls _run_once again.
ClientCallAgain ==
    /\ pc \in {"returned", "raised"}
    /\ EnterRunOnce(caller)
    /\ slept' = <<>>
    /\ UNCHANGED <<run, faults, nrec, file, configured, cfg_page_size, idx, failed, ret>>
    /\ UNCHANGED harvestLocals
    /\ UNCHANGED obsVars
    /\ UNCHANGED otherVars
    /\ UNCHANGED <<earlier, frames, exit_status, starts>>

NextClient ==
    \/ ClientReturn
    \/ ClientRetry
    \/ ClientRaise
    \/ ClientCallAgain

SpecClient == InitClient /\ [][NextClient]_vars

\* ------------------------------------------ consolidate_people on its own
\* The directories it is run on: file 1 is absent, header-only, or holds one
\* row of any birth and death; every other file is absent, header-only, a
\* copy of file 1 (the same person under a second occupation), or the two
\* rows (1810, 1870) and (1950, 1999).
DateCell(y) == [kind |-> "date", year |-> y, jan1 |-> FALSE]
ExampleFile ==
    [exists |-> TRUE,
     rows |-> << [person_id |-> "Q2", birth |-> DateCell(1810), death |-> DateCell(1870)],
                 [person_id |-> "Q3", birth |-> DateCell(1950), death |-> DateCell(1999)] >>]
FirstFiles == {NoFile, HeaderOnly} \cup {[exists |-> TRUE, rows |-> <<r>>] : r \in PersonRows}
OtherFile(tag, first) ==
    CASE tag = "absent" -> NoFile
      [] tag = "header" -> HeaderOnly
      [] tag = "copy" -> first
      [] tag = "example" -> ExampleFile
Directories ==
    {[f \in Files |-> IF f = 1 THEN first ELSE OtherFile(tags[f], first)] :
        first \in FirstFiles, tags \in [Files -> {"absent", "header", "copy", "example"}]}

InitConsolidate ==
    /\ InitState
    /\ BookDefaults
    /\ pc = "consolidate"
    /\ cfg_max_retries = DefaultMaxRetries
    /\ rawdir \in Directories

\* consolidate_people(cfg): read the files that have data; with none, return
\* and write nothing; else concatenate, filter, write scholars.csv.
ConsolidatePeople ==
    /\ pc = "consolidate"
    /\ pc' = "consolidated"
    /\ frames' = ReadFrames(rawdir)
    /\ scholars' = IF ReadFrames(rawdir) = {}
                   THEN scholars
                   ELSE [written |-> TRUE, rows |-> Consolidated(rawdir, ReadFrames(rawdir))]
    /\ UNCHANGED <<run, faults, nrec, file, configured, cfg_page_size, caller, idx, tries,
                   delay, batch, exc, failed, ret, attempts, backoffs, slept, earlier,
                   exit_status, starts, cfg_max_retries, rawdir>>
    /\ UNCHANGED bookVars
    /\ UNCHANGED harvestLocals
    /\ UNCHANGED obsVars

NextConsolidate == ConsolidatePeople

SpecConsolidate == InitConsolidate /\ [][NextConsolidate]_vars

\* ----------------------------------------------------- phil_book_crawler.py
\* main: the sequential claims phase, then the works phase, in which worker
\* threads of a ThreadPoolExecutor run fetch_works_batch and the main thread
\* takes the futures from as_completed and writes to SQLite. A step is one
\* request of sparql_query with what follows it up to the next request, a
\* worker taking a task, or one pass of main's as_completed loop.

\* What sparql_query returns: response.json() of a request that succeeded,
\* with n bindings, or {} when every attempt failed.
Json(n) == [has_results |-> TRUE, bindings |-> n]
EmptyDict == [has_results |-> FALSE, bindings |-> 0]

\* sparql_query's loop `for attempt in range(1, retries + 1)` after its r-th
\* request (r = attempt): the request succeeded (ok) or raised; the record
\* says whether the call returns, and what. After an exception the loop
\* sleeps 2**attempt and goes on; when the range is exhausted `return {}`.
SparqlQuery(r, n, ok) ==
    IF ok THEN [returns |-> TRUE, data |-> Json(n), truth |-> "ok"]
    ELSE IF r >= retries THEN [returns |-> TRUE, data |-> EmptyDict, truth |-> "failed"]
    ELSE [returns |-> FALSE, data |-> EmptyDict, truth |-> "none"]

\* .get("results", {}).get("bindings", []): the number of bindings the
\* caller iterates over.
Bindings(data) == IF data.has_results THEN data.bindings ELSE 0

\* The rows fetch_*_batch builds from n bindings of the query of batch b, as
\* their primary keys: the person ids of a batch are its own (ids is
\* unique(), chunk_list cuts it into disjoint slices).
BatchRowsOf(b, n) == {<<b, w>> : w \in 1 .. n}

\* executemany("INSERT OR IGNORE ..."): rows whose key is in the table are skipped.
InsertOrIgnore(table, rows) == table \cup {r \in rows : r \notin table}

\* as_completed(future_to_batch): the futures it can hand to main next.
AsCompleted_Again(fut) == {b \in Batches : fut[b].state \in {"finished", "seen"}}

AsCompleted(fut) == {b \in Batches : fut[b].state = "finished"}

\* The executor's queue is first in, first out: the task a free worker takes.
NextTask(fut) ==
    {b \in Batches : fut[b].state = "pending"
                     /\ \A c \in Batches : fut[c].state = "pending" => b <= c}

Running(fut) == {b \in Batches : fut[b].state = "running"}

InitBook ==
    /\ InitState
    /\ pc = "book_claims"
    /\ cfg_max_retries = DefaultMaxRetries
    /\ rawdir = EmptyDir
    /\ retries \in 1 .. MaxBookRetries
    /\ threads \in 1 .. MaxThreads
    /\ remote \in [Batches -> BatchRows]

\* Claims phase: one request of fetch_claims_batch's query for batch
\* claims_i; if sparql_query returns, the rest of the loop body: build rows,
\* `if rows:` insert and commit, log the number of rows, next batch.
ClaimsRequest ==
    /\ pc = "book_claims"
    /\ claims_i <= NumBatches
    /\ \E ok \in BOOLEAN :
          LET r == requests[claims_i] + 1
              q == SparqlQuery(r, remote[claims_i], ok)
              rows == Bindings(q.data)
          IN  /\ requests' = [requests EXCEPT ![claims_i] = IF q.returns THEN 0 ELSE r]
              /\ truth' = [truth EXCEPT ![claims_i] = q.truth]
              /\ IF q.returns
                 THEN /\ claims' = IF rows > 0
                                   THEN InsertOrIgnore(claims, BatchRowsOf(claims_i, rows))
                                   ELSE claims
                      /\ logged' = [logged EXCEPT ![claims_i] = rows]
                      /\ claims_i' = claims_i + 1
                 ELSE UNCHANGED <<claims, logged, claims_i>>
    /\ UNCHANGED <<pc, retries, threads, remote, future, works, inserts, first_seen>>
    /\ UNCHANGED crawlVars

\* The claims loop is over: the executor is created and every batch is
\* submitted; main enters the as_completed loop.
SubmitWorks ==
    /\ pc = "book_claims"
    /\ claims_i > NumBatches
    /\ pc' = "book_works"
    /\ future' = [b \in Batches |-> [state |-> "pending", rows |-> 0]]
    /\ requests' = [b \in Batches |-> 0]
    /\ truth' = [b \in Batches |-> "none"]
    /\ logged' = [b \in Batches |-> -1]
    /\ UNCHANGED <<retries, threads, remote, claims_i, claims, works, inserts, first_seen>>
    /\ UNCHANGED crawlVars

\* A free worker thread takes the next task of the queue.
WorkerStart(b) ==
    /\ pc = "book_works"
    /\ b \in NextTask(future)
    /\ Cardinality(Running(future)) < threads
    /\ future' = [future EXCEPT ![b].state = "running"]
    /\ UNCHANGED <<pc, retries, threads, remote, claims_i, claims, works, requests, truth,
                   logged, inserts, first_seen>>
    /\ UNCHANGED crawlVars

\* A worker: one request of fetch_works_batch's query for batch b; if
\* sparql_query returns, the rows are built and the future is finished.
WorkerRequest(b) ==
    /\ pc = "book_works"
    /\ future[b].state = "running"
    /\ \E ok \in BOOLEAN :
          LET r == requests[b] + 1
              q == SparqlQuery(r, remote[b], ok)
          IN  /\ requests' = [requests EXCEPT ![b] = IF q.returns THEN 0 ELSE r]
              /\ truth' = [truth EXCEPT ![b] = q.truth]
              /\ future' = IF q.returns
                           THEN [future EXCEPT ![b] = [state |-> "finished",
                                                       rows |-> Bindings(q.data)]]
                           ELSE future
    /\ UNCHANGED <<pc, retries, threads, remote, claims_i, claims, works, logged, inserts,
                   first_seen>>
    /\ UNCHANGED crawlVars

\* Main thread, one pass of `for future in as_completed(...)`:
\* rows = future.result(); `if rows:` executemany and commit; log.
MainAsCompleted ==
    /\ pc = "book_works"
    /\ \E b \in AsCompleted(future) :
          LET rows == future[b].rows
          IN  /\ works' = IF rows > 0 THEN InsertOrIgnore(works, BatchRowsOf(b, rows)) ELSE works
              /\ inserts' = [inserts EXCEPT ![b] = IF rows > 0 THEN @ + 1 ELSE @]
              /\ logged' = [logged EXCEPT ![b] = rows]
              /\ future' = [future EXCEPT ![b].state = "seen"]
              /\ first_seen' = IF first_seen = 0 THEN b ELSE first_seen
    /\ UNCHANGED <<pc, retries, threads, remote, claims_i, claims, requests, truth>>
    /\ UNCHANGED crawlVars

\* as_completed is exhausted: the with-block ends and main goes on to build
\* the output files from the two tables.
BookFinish ==
    /\ pc = "book_works"
    /\ \A b \in Batches : future[b].state = "seen"
    /\ pc' = "book_done"
    /\ UNCHANGED bookVars
    /\ UNCHANGED crawlVars

NextBook ==
    \/ ClaimsRequest
    \/ SubmitWorks
    \/ \E b \in Batches : WorkerStart(b)
    \/ \E b \in Batches : WorkerRequest(b)
    \/ MainAsCompleted
    \/ BookFinish

SpecBook == InitBook /\ [][NextBook]_vars

\* ------------------------------------------------------------ the claims

\* download_people_per_occ is at work on occupation p.
Harvesting(p) ==
    idx = p /\ caller = "paged" /\ pc \in {"run_once", "returned", "raised", "while"}
HarvestingNext(p) ==
    idx' = p /\ caller' = "paged" /\ pc' \in {"run_once", "returned", "raised", "while"}

\* The file exists and holds, after its header, at least one data row.
HasHeaderAndRow(f) ==
    f.exists /\ \E i \in 1 .. Len(f.rows) : f.rows[i][2] > f.rows[i][1]

\* No record of the result set is in the file twice.
NoRowTwice(rows) ==
    \A i, j \in 1 .. Len(rows) :
        i < j => (rows[i][2] <= rows[j][1] \/ rows[j][2] <= rows[i][1])

InList(lst, p) == \E i \in 1 .. Len(lst) : lst[i] = p

\* C1: after a pagination-level capacity failure the next pagination of the
\* occupation starts at the offset of the page that failed, and so no record
\* is written to the occupation's file a second time.
C1_ResumesAtFailedOffset ==
    /\ (pc = "run_once" /\ caller = "paged" /\ failedOffset >= 0) => offset = failedOffset
    /\ \A p \in Parts : NoRowTwice(file[p].rows)

\* C2: a file with a header and at least one data row is never modified and
\* its occupation is never harvested (so never queried), in any invocation:
\* outside the harvest that writes it, every step leaves it as it is and
\* leaves the harvester out of that occupation.
C2_CheckpointUntouched ==
    [][\A p \in Parts :
          (HasHeaderAndRow(file[p]) /\ ~Harvesting(p))
              => (file'[p] = file[p] /\ ~HarvestingNext(p))]_vars

\* A second invocation has skipped an occupation whose file holds data.
C2_Witness ==
    \E p \in Parts : run >= 2 /\ ret[p] = "None" /\ HasHeaderAndRow(file[p])

\* C3: when main has built its failure report, the report lists an occupation
\* exactly if its harvest ended Abandoned (returned False) in this invocation.
C3_ReportListsAbandonedOnly ==
    pc = "done" => \A p \in Parts : (InList(failed, p) <=> ret[p] = "False")

\* C4: a request answered with an HTTP error outside 429/502/503/504 is the
\* query's last: the error leaves _run_once at once, with no sleep and no
\* further request.
C4_FatalReturnsAtOnce ==
    (exc.type = "UrlHTTPError" /\ exc.code \notin {429, 502, 503, 504})
        => (pc \in {"raised", "crashed"} /\ slept = <<>>)

\* C5: every successful (non-empty) page fetch of an occupation sets the
\* consecutive-failure counter back to zero.
C5_SuccessResetsCounter ==
    [][(pc = "returned" /\ caller = "paged" /\ batch > 0) => consecutive_fail' = 0]_vars

\* C6: once three pagination-level capacity failures have come in a row, the
\* harvester sends no further query for the occupation: it is at its loop
\* test or has returned False, and from the loop test it returns False.
C6_ThreeInARowAbandons ==
    /\ [](streak >= 3 =>
            \/ pc = "while"
            \/ pc \in {"for_occ", "done"} /\ idx > 1 /\ ret[idx - 1] = "False")
    /\ [][(pc = "while" /\ streak >= 3)
            => (pc' = "for_occ" /\ idx' = idx + 1 /\ ret'[idx] = "False")]_vars

\* Three failures in a row happened and the occupation was given up.
C6_Witness ==
    streak = 3 /\ pc = "for_occ" /\ idx > 1 /\ ret[idx - 1] = "False"

\* C7: every page size that shrinkage assigns is at least 500; the page size
\* is never zero.
C7_ShrinkRespectsFloor ==
    /\ pc = "while" => cfg_page_size >= 500
    /\ cfg_page_size > 0

\* The third shrinkage of the default page size: 2000, 1000, 500, 500.
C7_Witness ==
    /\ pc = "while"
    /\ original_page_size = 2000
    /\ consecutive_fail = 3
    /\ cfg_page_size = 500

\* C8: whenever an occupation is about to start, and whenever one has
\* returned, client.cfg.page_size is the page size configured at start.
C8_PageSizeRestored ==
    pc \in {"for_occ", "done"} => cfg_page_size = configured

\* The first occupation was abandoned (three shrinkages from 2000) and the
\* second is about to start.
C8_Witness ==
    pc = "for_occ" /\ idx = 2 /\ ret[1] = "False" /\ configured = 2000

\* C9: the offset of every page query equals the sum of the limits of the
\* occupation's earlier non-empty pages, and offsets only grow (the same
\* offset comes again only as the re-request of the page that failed).
C9_OffsetsIncreaseBySum ==
    (pc = "run_once" /\ caller = "paged") =>
        /\ offset = sumLimits
        /\ \/ prevOffset < offset
           \/ prevOffset = offset /\ failedOffset = offset

\* C10: a retryable non-HTTP failure that outlasts the client's retries does
\* not abort the run.
C10_RetryableFailureDegrades ==
    ~(pc = "crashed" /\ caller = "paged"
        /\ exc.type \in {"JSONDecodeError", "RemoteDisconnected"})

\* C11: when a query has failed for good with a retryable error (a capacity
\* status, a malformed body, a connection reset), _run_once has sent as many requests as --max-retries says, and what the caller gets
\* is the exception.
C11_AttemptsEqualCeiling ==
    (pc = "raised" /\ WrapperCatches(exc) /\ exc.type # "UrlHTTPError") =>
        (attempts = cfg_max_retries /\ exc # NoExc)

\* C12: an occupation is skipped as already downloaded only if its harvest
\* returned True (reached the empty page) in an earlier invocation.
C12_SkipOnlyIfCompletedEarlier ==
    \A p \in Parts : ret[p] = "None" => p \in earlier

\* The file exists and holds its header and nothing else.
HeaderOnlyFile(f) == f.exists /\ ~HasHeaderAndRow(f)

\* C13: a header-only file is no checkpoint: _csv_has_data is false for it,
\* the invocation that comes to its occupation harvests it again, and
\* consolidate_people does not read it.
C13_HeaderOnlyIsNoCheckpoint ==
    /\ [](\A p \in Parts : HeaderOnlyFile(file[p]) => ~CsvHasData(file[p]))
    /\ [][(pc = "for_occ" /\ idx <= NumParts /\ HeaderOnlyFile(file[idx]))
             => HarvestingNext(idx)]_vars
    /\ [](\A p \in Parts : HeaderOnlyFile(file[p]) => p \notin frames)

\* An occupation completed with no record in an earlier invocation has been
\* harvested again (not skipped) in this one, and the consolidation, which
\* read another file, left its header-only file out.
C13_Witness ==
    /\ run >= 2
    /\ pc = "done"
    /\ \E p \in Parts :
          /\ p \in earlier
          /\ ret[p] = "True"
          /\ HeaderOnlyFile(file[p])
          /\ p \notin frames
    /\ frames # {}

\* C14: the step that abandons an occupation leaves its file as written and
\* puts main at the next occupation; the file stays as it is while the run
\* goes on, and main's next step skips or starts the next occupation.
C14_AbandonKeepsRowsAndGoesOn ==
    /\ [][\A p \in Parts :
            (pc = "while" /\ idx = p /\ ret'[p] = "False")
                => (file'[p] = file[p] /\ pc' = "for_occ" /\ idx' = p + 1)]_vars
    /\ [][\A p \in Parts :
            (ret[p] = "False" /\ ret'[p] = "False") => file'[p] = file[p]]_vars
    /\ [][(pc = "for_occ" /\ idx \in 2 .. NumParts /\ ret[idx - 1] = "False")
            => (ret'[idx] = "None" \/ HarvestingNext(idx))]_vars

\* The first occupation was abandoned with rows in its file, and the second
\* is being harvested.
C14_Witness ==
    /\ pc = "run_once" /\ caller = "paged" /\ idx = 2
    /\ ret[1] = "False"
    /\ HasHeaderAndRow(file[1])

\* C15: an error that reaches the harvester and is not a capacity error
\* (status 429, 502, 503 or 504) ends the run: the next step is the crash,
\* and a crashed process does nothing more (the only step is a new invocation).
C15_FatalAbortsRun ==
    /\ [][(pc = "raised" /\ caller = "paged" /\ exc.code \notin {429, 502, 503, 504})
            => pc' = "crashed"]_vars
    /\ [][pc = "crashed" => run' = run + 1]_vars

\* A 403 during the first occupation ended the run; the second occupation
\* was never started.
C15_Witness ==
    /\ pc = "crashed" /\ caller = "paged" /\ idx = 1
    /\ exc.type = "UrlHTTPError" /\ exc.code = 403
    /\ ret[2] = "unset" /\ ~file[2].exists

RECURSIVE TotalSleep(_)
TotalSleep(sleeps) ==
    IF sleeps = <<>> THEN 0 ELSE Head(sleeps)[2] + TotalSleep(Tail(sleeps))

\* C16: after a capacity answer that carries Retry-After, the wait before the
\* next attempt is min(hint, maximum): whatever the maximum, no more than the
\* hint (the computed delay is not added to it).
C16_HintReplacesDelay ==
    (pc = "run_once" /\ attempts > 0 /\ exc.retry_after >= 0)
        => TotalSleep(slept) <= exc.retry_after

RECURSIVE Pow(_, _)
Pow(b, n) == IF n = 0 THEN 1 ELSE b * Pow(b, n - 1)

\* C17: for some maximum, the delay slept after the k-th failed attempt of a
\* query is min(maximum, 1 * 2^k), for every k.
C17_DelayIsBaseTimesPower ==
    \E mx \in 1 .. MaxClamp :
        \A k \in 1 .. Len(backoffs) : backoffs[k] = Min(mx, 1 * Pow(2, k))

\* The rows of the files consolidate_people is run on, and of its output.
RowsOf(dir) == UNION {{dir[f].rows[i] : i \in 1 .. Len(dir[f].rows)} : f \in Files}
InScholars(r) == \E j \in 1 .. Len(scholars.rows) : scholars.rows[j] = r
Count(rows, r) == Cardinality({i \in 1 .. Len(rows) : rows[i] = r})

\* The temporal predicate, on the cells: the birth is a date of a year up to
\* the upper bound and the death a date of a year from the lower bound on,
\* or the death is no date (absent or unparseable).
Overlaps(r, lower, upper) ==
    \/ /\ r.birth.kind = "date" /\ r.birth.year <= upper
       /\ r.death.kind = "date" /\ r.death.year >= lower
    \/ r.death.kind # "date"

C19_OutputWithinDocstringDates ==
    \A j \in 1 .. Len(scholars.rows) :
        LET r == scholars.rows[j] IN
        (r.birth.kind = "date" /\ r.death.kind = "date") =>
            /\ r.birth.year > 1801 \/ (r.birth.year = 1801 /\ ~r.birth.jan1)
            /\ r.death.year < 1901

RECURSIVE Expected(_, _, _)
\* How often row r is due in the output: once for each time it stands in a
\* file (numbered f or higher) that has at least one data row, if it passes
\* the predicate.
Expected(dir, r, f) ==
    IF f > NumFiles THEN 0
    ELSE (IF Len(dir[f].rows) >= 1 /\ Overlaps(r, 1800, 1901)
          THEN Count(dir[f].rows, r) ELSE 0) + Expected(dir, r, f + 1)

\* C20: scholars.csv is written when some file has a data row, and then holds
\* each row as often as the files with data hold it, if it passes the
\* predicate, and no other row (nothing is de-duplicated across files).
C20_OutputIsMultisetOfPassingRows ==
    pc = "consolidated" =>
        /\ scholars.written <=> \E f \in Files : Len(rawdir[f].rows) >= 1
        /\ \A r \in RowsOf(rawdir) \cup {scholars.rows[j] : j \in 1 .. Len(scholars.rows)} :
              Count(scholars.rows, r) = Expected(rawdir, r, 1)

\* The same person stands in two files and twice in the output.
C20_Witness ==
    /\ pc = "consolidated"
    /\ Len(rawdir[1].rows) = 1
    /\ rawdir[2] = rawdir[1]
    /\ rawdir[1].rows[1].death.kind = "date"
    /\ Count(scholars.rows, rawdir[1].rows[1]) = 2

\* C22: the step after an empty page ends the harvest with True and puts
\* main at the next occupation; an occupation that returned True is not
\* harvested (so not queried) again in the invocation.
C22_EmptyPageCompletes ==
    /\ [][(pc = "returned" /\ caller = "paged" /\ batch = 0)
            => (pc' = "for_occ" /\ idx' = idx + 1 /\ ret'[idx] = "True")]_vars
    /\ [][\A p \in Parts : ret[p] = "True" => ~HarvestingNext(p)]_vars

\* An occupation with records was completed and main is at the next one.
C22_Witness ==
    pc = "for_occ" /\ idx = 2 /\ ret[1] = "True" /\ HasHeaderAndRow(file[1])

HasPoliteness(sleeps) == \E i \in 1 .. Len(sleeps) : sleeps[i][1] = "politeness"

\* C23: the step after a non-empty page takes the politeness delay, once and
\* as the only sleep, and the next page query follows; no other step (after
\* the empty page, after a failure, between occupations) takes it.
C23_PolitenessOnlyBetweenPages ==
    /\ [][(pc = "returned" /\ caller = "paged" /\ batch > 0)
            => (slept' = << <<"politeness", 1>> >> /\ pc' = "run_once")]_vars
    /\ [][~(pc = "returned" /\ caller = "paged" /\ batch > 0)
            => ~HasPoliteness(slept')]_vars

\* The second page query of an occupation is about to be sent, the politeness
\* delay taken.
C23_Witness ==
    /\ pc = "run_once" /\ caller = "paged" /\ attempts = 0
    /\ offset > 0
    /\ slept = << <<"politeness", 1>> >>

\* C25: while an occupation is harvested, the page size is at most the
\* configured page size.
C25_PageSizeNeverAboveConfigured ==
    \A p \in Parts : Harvesting(p) => cfg_page_size <= configured

\* C21: an interrupt at any point of the harvest of a partition leaves the
\* partition's file in place, holding what it held before followed by nothing
\* or by the first rows of the page being written, each row whole: a prefix of
\* what the uninterrupted harvest would have written next. No other
\* partition's file is touched.
C21_InterruptLeavesPrefix ==
    [][(pc' = "interrupted" /\ Harvesting(idx))
         => /\ file'[idx].exists
            /\ \A q \in Parts \ {idx} : file'[q] = file[q]
            /\ \/ file'[idx].rows = file[idx].rows
               \/ /\ pc = "returned"
                  /\ \E k \in 1 .. batch :
                        file'[idx].rows = Append(file[idx].rows, <<offset, offset + k>>)]_vars

\* Interrupted in the middle of the second page: the first page and one row
\* of the second are in the file.
C21_Witness ==
    /\ pc = "interrupted"
    /\ caller = "paged"
    /\ idx \in Parts
    /\ file[idx].exists
    /\ file[idx].rows = << <<0, 300>>, <<300, 301>> >>

\* C24: an interrupted run ends with status 130, a run whose main returns
\* ends with status 0, abandoned partitions or not, and no run has a status
\* before it ends.
C24_ExitStatus ==
    /\ pc = "interrupted" => exit_status = 130
    /\ pc = "done" => exit_status = 0
    /\ pc \notin {"interrupted", "done", "crashed"} => exit_status = -1

\* main returned with an abandoned partition in its failure report.
C24_Witness ==
    /\ pc = "done"
    /\ exit_status = 0
    /\ \E p \in Parts : ret[p] = "False" /\ InList(failed, p)


\* C26: the harvest of a partition ends, with True (completed), False
\* (abandoned) or an exception that ends the process; it starts pagination
\* at most 3 times, sends no query more than 3 times, and returns False only
\* at the third failure of a pagination.
C26_HarvestTerminates ==
    /\ \A p \in Parts : Harvesting(p) ~> (ret[p] \in {"True", "False"} \/ pc = "crashed")
    /\ [](starts <= 3 /\ attempts <= 3)
    /\ [][\A p \in Parts : (ret[p] # "False" /\ ret'[p] = "False")
              => (starts = 3 /\ consecutive_fail = 3)]_vars

\* The first partition was abandoned, at the third failure the endpoint had
\* to give, and main is at the second.
C26_Witness ==
    /\ pc = "for_occ"
    /\ idx = 2
    /\ ret[1] = "False"
    /\ faults = 3
    /\ file[1].exists


\* C27: sparql_query sends at most `retries` requests for a query, and a
\* batch whose query failed on every attempt is never recorded as a batch
\* with no rows: main does not log 0 rows for it.
C27_FailedBatchIsNotEmptyBatch ==
    /\ \A b \in Batches : requests[b] <= retries
    /\ \A b \in Batches : truth[b] = "failed" => logged[b] # 0

\* C28: in the works phase the table is written only by main's pass over one
\* finished future, which adds that batch's rows; no batch is inserted
\* twice; and when as_completed is exhausted every batch that returned rows
\* was inserted once and the table holds the rows the workers returned,
\* whatever the order the futures completed in.
C28_WorksTableIndependentOfOrder ==
    /\ [](\A b \in Batches : inserts[b] <= 1)
    /\ [](pc = "book_done"
            => /\ \A b \in Batches : inserts[b] = IF future[b].rows > 0 THEN 1 ELSE 0
               /\ works = UNION {BatchRowsOf(b, future[b].rows) : b \in Batches}
               /\ works = UNION {BatchRowsOf(b, remote[b]) : b \in {c \in Batches : truth[c] = "ok"}})
    /\ [][works' # works
            => \E b \in Batches :
                  /\ future[b].state = "finished"
                  /\ future'[b].state = "seen"
                  /\ works' = works \cup BatchRowsOf(b, future[b].rows)
                  /\ \A c \in Batches \ {b} : future'[c] = future[c]]_vars

\* The future of the last batch submitted was the first that main got; in
\* the end every batch was inserted once and the table holds all their rows.
C28_Witness ==
    /\ pc = "book_done"
    /\ first_seen = NumBatches
    /\ \A b \in Batches : inserts[b] = 1 /\ BatchRowsOf(b, 2) \subseteq works

====
